---- MODULE Spec2Model ----
(***************************************************************************)
(* Model of src/strategy.py: the Strategy event loop (run), place_order    *)
(* and next_order_id, together with the ExchangeSimulator it talks to.     *)
(* The simulator (simulator.py) is an external collaborator; its tick(),   *)
(* place_order() and cancel_order() are modelled from the interface the    *)
(* specification gives it.                                                 *)
(*                                                                         *)
(* Units: timestamps are integer nanoseconds.  Prices are integers and the *)
(* order size 0.001 is one size unit, so position_size_quote is counted in *)
(* thousandths of a quote unit.                                            *)
(***************************************************************************)
EXTENDS Integers, Sequences, FiniteSets, TLC

VARIABLES
    max_position,        \* Strategy.max_position        (constructor argument)
    order_lifetime,      \* Strategy.order_lifetime      (constructor argument)
    current_time,        \* Strategy.current_time        (None until the first update)
    orderbook,           \* Strategy.orderbook           (None until the first snapshot)
    client_order_id,     \* Strategy.client_order_id     (next id to hand out)
    active_orders,       \* Strategy.active_orders       (OrderedDict, as a sequence of Orders)
    pending_orders,      \* Strategy.pending_orders      (never populated)
    position_size_quote, \* Strategy.position_size_quote
    log_open,            \* Strategy.log is open
    pc,                  \* position of run(): "running" in the loop, "done" after break,
                         \* "crashed" after an uncaught KeyError
    update,              \* run()'s local `update`: the value sim.tick() returned last
    sim_ts,              \* simulator: timestamp of the last event delivered
    sim_delivered,       \* simulator: number of updates delivered so far
    sim_orders,          \* simulator: every Order passed to sim.place_order, in call order
    sim_cancels,         \* simulator: every OrderCancel passed to sim.cancel_order, in call order
    sim_order_acked,     \* simulator: indices of sim_orders already answered by an ActionResponse
    sim_cancel_acked,    \* simulator: indices of sim_cancels already answered by an ActionResponse
    sim_filled,          \* simulator: client_order_ids for which an OwnTrade was delivered
    iter                 \* what the last loop iteration did (observation of the step)

vars == <<max_position, order_lifetime, current_time, orderbook, client_order_id,
          active_orders, pending_orders, position_size_quote, log_open, pc, update,
          sim_ts, sim_delivered, sim_orders, sim_cancels, sim_order_acked, sim_cancel_acked,
          sim_filled, iter>>

(***************************************************************************)
(* Bounds of the model.                                                    *)
(***************************************************************************)
MaxEvents == 4         \* number of updates the simulator delivers before the stream ends
MaxTime == 21          \* largest timestamp the simulator delivers
MaxLifetime == 0       \* order_lifetime is drawn from 0..MaxLifetime
MaxMaxPosition == 0    \* max_position is drawn from 0..MaxMaxPosition

(***************************************************************************)
(* Program constants.                                                      *)
(***************************************************************************)
SubmissionDelay == 20  \* client_ts = current_time + 20
OrderSize == 1         \* size=0.001, one size unit
FirstOrderId == 1      \* self.client_order_id: int = 1
None == -1             \* Python None for the Optional[int] current_time

NoOrder == [client_ts |-> None, client_order_id |-> 0, side |-> "NONE",
            size |-> 0, price |-> 0]
NoBook == [receive_ts |-> None, bids |-> <<>>, asks |-> <<>>]

Sides == {"BID", "ASK"}
Codes == {"OK", "REJECTED"}

\* simulator.Order(client_ts, client_order_id, side, size, price)
Order(ts, id, side, size, price) ==
    [client_ts |-> ts, client_order_id |-> id, side |-> side,
     size |-> size, price |-> price]

\* simulator.OrderCancel(client_ts, client_order_id)
OrderCancel(ts, id) == [client_ts |-> ts, client_order_id |-> id]

(***************************************************************************)
(* OrderedDict operations used on active_orders.                           *)
(***************************************************************************)
Keys(d) == {d[i].client_order_id : i \in 1..Len(d)}

\* key in d
Contains(d, key) == key \in Keys(d)

\* d[key] = value : replaces in place when present, appends otherwise
DictSet(d, key, value) ==
    IF Contains(d, key)
    THEN [i \in 1..Len(d) |-> IF d[i].client_order_id = key THEN value ELSE d[i]]
    ELSE Append(d, value)

\* d.pop(key) for a key that is present
DictPop(d, key) == SelectSeq(d, LAMBDA o : o.client_order_id # key)

(***************************************************************************)
(* Values returned by sim.tick().  One record shape is used for every      *)
(* update; the fields a kind does not have hold None / NoOrder / NoBook.   *)
(***************************************************************************)
NoUpdate == [type |-> "Start", receive_ts |-> None, orderbook |-> NoBook,
             trade_ts |-> None, own_trade |-> NoOrder, action_type |-> "NONE",
             action |-> NoOrder, action_receive_ts |-> None, code |-> "NONE"]

\* MdUpdate carrying an orderbook snapshot
MdOrderbook(ts, bid, ask) ==
    [NoUpdate EXCEPT !.type = "MdUpdate", !.receive_ts = ts,
        !.orderbook = [receive_ts |-> ts, bids |-> << <<bid, 1>> >>,
                       asks |-> << <<ask, 1>> >>]]

\* MdUpdate carrying a public trade
MdTrade(ts) == [NoUpdate EXCEPT !.type = "MdUpdate", !.receive_ts = ts, !.trade_ts = ts]

\* MdUpdate carrying neither (heartbeat)
MdHeartbeat(ts) == [NoUpdate EXCEPT !.type = "MdUpdate", !.receive_ts = ts]

\* OwnTrade(client_order_id, side, size, price, receive_ts): full fill of order o
OwnTrade(ts, o) == [NoUpdate EXCEPT !.type = "OwnTrade", !.receive_ts = ts, !.own_trade = o]

\* ActionResponse(action, code); the simulator stamps the action with the
\* response's timestamp (action.receive_ts)
ActionResponse(ts, atype, action, code) ==
    [NoUpdate EXCEPT !.type = "ActionResponse", !.receive_ts = ts,
        !.action_type = atype, !.action = action, !.action_receive_ts = ts,
        !.code = code]

\* end-of-stream sentinel
EndOfStream == [NoUpdate EXCEPT !.type = "None"]

(***************************************************************************)
(* Pieces of Strategy.run.                                                 *)
(***************************************************************************)
\* EventTime with the ActionResponse branch reading the action's client_ts
EventTime_ActionClientTs(u) ==
    IF u.type = "MdUpdate"
    THEN IF u.orderbook # NoBook THEN u.orderbook.receive_ts
         ELSE IF u.trade_ts # None THEN u.trade_ts
         ELSE u.receive_ts
    ELSE IF u.type = "OwnTrade" THEN u.receive_ts
    ELSE u.action.client_ts

\* the timestamp each branch of the dispatch assigns to self.current_time
EventTime(u) ==
    IF u.type = "MdUpdate"
    THEN IF u.orderbook # NoBook THEN u.orderbook.receive_ts
         ELSE IF u.trade_ts # None THEN u.trade_ts
         ELSE u.receive_ts
    ELSE IF u.type = "OwnTrade" THEN u.receive_ts
    ELSE u.action_receive_ts

\* next_order_id that increments before it reads the id
next_order_id_PreIncrement(counter) ==
    [cur_id |-> counter + 1, client_order_id |-> counter + 1]

\* next_order_id without the increment
next_order_id_NoIncrement(counter) == [cur_id |-> counter, client_order_id |-> counter]

\* next_order_id: returns cur_id and the incremented counter
next_order_id(counter) == [cur_id |-> counter, client_order_id |-> counter + 1]

\* SelectSide with the two bounded branches exchanged
SelectSide_Swapped(pos, maxpos, rnd) ==
    IF pos < -maxpos THEN "ASK"
    ELSE IF pos > maxpos THEN "BID"
    ELSE rnd

\* the side quoted for a snapshot; rnd is the outcome random.choice would give
SelectSide(pos, maxpos, rnd) ==
    IF pos < -maxpos THEN "BID"
    ELSE IF pos > maxpos THEN "ASK"
    ELSE rnd

\* random.choice is called only in the else branch
RandomConsulted(pos, maxpos) == ~(pos < -maxpos) /\ ~(pos > maxpos)

\* place_order: the ledger after self.active_orders[order.client_order_id] = order
place_order(d, order) == DictSet(d, order.client_order_id, order)

\* QuotedOrders that places both candidates
QuotedOrders_Both(side, order_best_bid, order_best_ask) ==
    <<order_best_bid, order_best_ask>>

\* the place_order calls of one snapshot, in call order: one candidate, by side
QuotedOrders(side, order_best_bid, order_best_ask) ==
    IF side = "BID" THEN <<order_best_bid>> ELSE <<order_best_ask>>

\* the ledger after place_order has been called for each of the orders
RECURSIVE PlaceAll(_, _)
PlaceAll(d, orders) ==
    IF orders = <<>> THEN d ELSE PlaceAll(place_order(d, Head(orders)), Tail(orders))

\* whether popping the keys one after the other raises KeyError: lines 96, 120
RECURSIVE PopRaises(_, _)
PopRaises(d, keys) ==
    IF keys = <<>> THEN FALSE
    ELSE \/ ~Contains(d, Head(keys))
         \/ PopRaises(DictPop(d, Head(keys)), Tail(keys))

\* FillKeys without the membership test of line 95
FillKeys_Unguarded(d, key) == <<key>>

\* OwnTrade branch: the keys it pops from the ledger, lines 95-96
FillKeys(d, key) == IF Contains(d, key) THEN <<key>> ELSE <<>>

\* FillRemove without the pop
FillRemove_NoPop(d, key) == d

\* OwnTrade branch: the ledger after the guarded pop
FillRemove(d, key) == IF Contains(d, key) THEN DictPop(d, key) ELSE d

\* ApplyFill that adds the notional whatever the side
ApplyFill_AlwaysAdd(pos, side, size, price) == pos + size * price

\* OwnTrade branch: the position after the fill
ApplyFill(pos, side, size, price) ==
    IF side = "BID" THEN pos + size * price ELSE pos - size * price

\* OnResponse without the test of the action's type
OnResponse_NoTypeCheck(d, atype, action, code) ==
    IF code = "OK"
    THEN DictSet(d, action.client_order_id, action)
    ELSE d

\* ActionResponse branch: the ledger after the response is handled
OnResponse(d, atype, action, code) ==
    IF atype = "Order" /\ code = "OK"
    THEN DictSet(d, action.client_order_id, action)
    ELSE d

\* Expired with the operands of the subtraction exchanged
Expired_SwappedOperands(now, order, lifetime) == order.client_ts - now > lifetime

\* the sweep's test: self.current_time - order.client_ts > self.order_lifetime
Expired(now, order, lifetime) == now - order.client_ts > lifetime

\* the sweep's scan: keys of the leading expired orders, stopping at the first live one
RECURSIVE ToCancel(_, _, _)
ToCancel(d, now, lifetime) ==
    IF d = <<>> THEN <<>>
    ELSE IF Expired(now, Head(d), lifetime)
         THEN <<Head(d).client_order_id>> \o ToCancel(Tail(d), now, lifetime)
         ELSE <<>>

\* the sweep's second loop: pop every key of to_cancel
RECURSIVE PopAll(_, _)
PopAll(d, keys) ==
    IF keys = <<>> THEN d ELSE PopAll(DictPop(d, Head(keys)), Tail(keys))

\* the OrderCancel requests of the second loop, in call order
CancelRequests(now, keys) == [i \in 1..Len(keys) |-> OrderCancel(now, keys[i])]

\* what one loop iteration did
Iteration(swept, random, ids, placed, cancelled) ==
    [swept |-> swept, random |-> random, ids |-> ids, placed |-> placed,
     cancelled |-> cancelled]

NoIteration == Iteration(FALSE, FALSE, <<>>, <<>>, <<>>)

(***************************************************************************)
(* Simulator: which updates tick() may return.                             *)
(***************************************************************************)
\* the (best bid, best ask) prices of the snapshots the simulator delivers
Books == {<<1, 2>>}

\* the timestamps the simulator stamps its updates with
Times == {0} \cup (SubmissionDelay..MaxTime)

\* timestamps are delivered in non-decreasing order
Deliverable(ts) == pc = "running" /\ ts >= sim_ts /\ sim_delivered < MaxEvents

Init ==
    /\ max_position \in 0..MaxMaxPosition
    /\ order_lifetime \in 0..MaxLifetime
    /\ current_time = None
    /\ orderbook = NoBook
    /\ client_order_id = FirstOrderId
    /\ active_orders = <<>>
    /\ pending_orders = <<>>
    /\ position_size_quote = 0
    /\ log_open = TRUE
    /\ pc = "running"
    /\ update = NoUpdate
    /\ sim_ts = 0
    /\ sim_delivered = 0
    /\ sim_orders = <<>>
    /\ sim_cancels = <<>>
    /\ sim_order_acked = {}
    /\ sim_cancel_acked = {}
    /\ sim_filled = {}
    /\ iter = NoIteration

\* the tail of every iteration that reaches the sweep: lines 112-122
SweepAndLoop(u, now, ledger, ids, placed, random) ==
    LET to_cancel == ToCancel(ledger, now, order_lifetime)
        cancelled == CancelRequests(now, to_cancel)
    IN  /\ update' = u
        /\ sim_ts' = u.receive_ts
        /\ sim_delivered' = sim_delivered + 1
        /\ current_time' = now
        /\ active_orders' = PopAll(ledger, to_cancel)
        /\ sim_orders' = sim_orders \o placed
        /\ sim_cancels' = sim_cancels \o cancelled
        /\ iter' = Iteration(TRUE, random, ids, placed, cancelled)
        /\ pc' = IF PopRaises(ledger, to_cancel) THEN "crashed" ELSE pc
        /\ UNCHANGED <<max_position, order_lifetime, pending_orders, log_open>>

\* TickNone without self.log.close()
TickNone_NoClose ==
    /\ pc = "running"
    /\ update' = EndOfStream
    /\ pc' = "done"
    /\ iter' = NoIteration
    /\ UNCHANGED <<max_position, order_lifetime, current_time, orderbook,
                   client_order_id, active_orders, pending_orders, log_open,
                   position_size_quote, sim_ts, sim_delivered, sim_orders, sim_cancels,
                   sim_order_acked, sim_cancel_acked, sim_filled>>

\* tick() returns None: lines 57-60
TickNone ==
    /\ pc = "running"
    /\ update' = EndOfStream
    /\ log_open' = FALSE
    /\ pc' = "done"
    /\ iter' = NoIteration
    /\ UNCHANGED <<max_position, order_lifetime, current_time, orderbook,
                   client_order_id, active_orders, pending_orders,
                   position_size_quote, sim_ts, sim_delivered, sim_orders, sim_cancels,
                   sim_order_acked, sim_cancel_acked, sim_filled>>

\* tick() returns an MdUpdate with an orderbook: lines 62-83, then the sweep
TickOrderbook ==
    \E ts \in Times, book \in Books, rnd \in Sides :
        /\ Deliverable(ts)
        /\ LET u == MdOrderbook(ts, book[1], book[2])
               now == EventTime(u)
               n1 == next_order_id(client_order_id)
               order_best_bid == Order(now + SubmissionDelay, n1.cur_id, "BID",
                                       OrderSize, u.orderbook.bids[1][1])
               n2 == next_order_id(n1.client_order_id)
               order_best_ask == Order(now + SubmissionDelay, n2.cur_id, "ASK",
                                       OrderSize, u.orderbook.asks[1][1])
               side == SelectSide(position_size_quote, max_position, rnd)
               placed == QuotedOrders(side, order_best_bid, order_best_ask)
           IN  /\ orderbook' = u.orderbook
               /\ client_order_id' = n2.client_order_id
               /\ SweepAndLoop(u, now, PlaceAll(active_orders, placed),
                               <<n1.cur_id, n2.cur_id>>, placed,
                               RandomConsulted(position_size_quote, max_position))
               /\ UNCHANGED <<position_size_quote, sim_order_acked,
                              sim_cancel_acked, sim_filled>>

\* MdTimeOnly that takes the continue of line 90 whether or not a book is cached
MdTimeOnly_AlwaysContinue(u, now) ==
    /\ update' = u
    /\ sim_ts' = u.receive_ts
    /\ sim_delivered' = sim_delivered + 1
    /\ current_time' = now
    /\ iter' = NoIteration
    /\ UNCHANGED <<max_position, order_lifetime, active_orders,
                   pending_orders, log_open, pc, sim_orders, sim_cancels>>
    /\ UNCHANGED <<orderbook, client_order_id, position_size_quote,
                   sim_order_acked, sim_cancel_acked, sim_filled>>

\* MdTimeOnly that books a public trade as a fill of one size unit
MdTimeOnly_TradeIsFill(u, now) ==
    /\ IF orderbook = NoBook
       THEN /\ update' = u
            /\ sim_ts' = u.receive_ts
            /\ sim_delivered' = sim_delivered + 1
            /\ current_time' = now
            /\ iter' = NoIteration
            /\ UNCHANGED <<max_position, order_lifetime, active_orders,
                           pending_orders, log_open, pc, sim_orders, sim_cancels>>
       ELSE SweepAndLoop(u, now, active_orders, <<>>, <<>>, FALSE)
    /\ position_size_quote' =
            IF u.trade_ts # None THEN position_size_quote + OrderSize
            ELSE position_size_quote
    /\ UNCHANGED <<orderbook, client_order_id,
                   sim_order_acked, sim_cancel_acked, sim_filled>>

\* lines 85-90 for an MdUpdate without orderbook: set the time, then
\* `continue` when no orderbook has been seen, else the sweep
MdTimeOnly(u, now) ==
    /\ IF orderbook = NoBook
       THEN /\ update' = u
            /\ sim_ts' = u.receive_ts
            /\ sim_delivered' = sim_delivered + 1
            /\ current_time' = now
            /\ iter' = NoIteration
            /\ UNCHANGED <<max_position, order_lifetime, active_orders,
                           pending_orders, log_open, pc, sim_orders, sim_cancels>>
       ELSE SweepAndLoop(u, now, active_orders, <<>>, <<>>, FALSE)
    /\ UNCHANGED <<orderbook, client_order_id, position_size_quote,
                   sim_order_acked, sim_cancel_acked, sim_filled>>

\* tick() returns an MdUpdate with a trade: lines 85-86
TickTrade ==
    \E ts \in Times :
        /\ Deliverable(ts)
        /\ LET u == MdTrade(ts) IN MdTimeOnly(u, EventTime(u))

\* tick() returns an MdUpdate with neither orderbook nor trade: lines 87-88
TickHeartbeat ==
    \E ts \in Times :
        /\ Deliverable(ts)
        /\ LET u == MdHeartbeat(ts) IN MdTimeOnly(u, EventTime(u))

\* the pop of line 96 raises: run() ends after line 94 has set the time
KeyErrorInFill(u, now) ==
    /\ update' = u
    /\ sim_ts' = u.receive_ts
    /\ sim_delivered' = sim_delivered + 1
    /\ current_time' = now
    /\ pc' = "crashed"
    /\ iter' = NoIteration
    /\ UNCHANGED <<max_position, order_lifetime, active_orders, pending_orders,
                   position_size_quote, log_open, sim_orders, sim_cancels>>

\* tick() returns an OwnTrade for an order submitted earlier: lines 92-100, then the sweep
TickOwnTrade ==
    \E ts \in Times, i \in 1..Len(sim_orders) :
        /\ Deliverable(ts)
        /\ sim_orders[i].client_order_id \notin sim_filled
        /\ LET u == OwnTrade(ts, sim_orders[i])
               own_trade == u.own_trade
               now == EventTime(u)
           IN  /\ sim_filled' = sim_filled \cup {own_trade.client_order_id}
               /\ IF PopRaises(active_orders,
                               FillKeys(active_orders, own_trade.client_order_id))
                  THEN KeyErrorInFill(u, now)
                  ELSE /\ position_size_quote' =
                              ApplyFill(position_size_quote, own_trade.side,
                                        own_trade.size, own_trade.price)
                       /\ SweepAndLoop(u, now,
                                       FillRemove(active_orders, own_trade.client_order_id),
                                       <<>>, <<>>, FALSE)
               /\ UNCHANGED <<orderbook, client_order_id, sim_order_acked, sim_cancel_acked>>

\* tick() returns the ActionResponse for a submitted Order: lines 102-108, then the sweep
TickOrderResponse ==
    \E ts \in Times, i \in 1..Len(sim_orders), code \in Codes :
        /\ Deliverable(ts)
        /\ i \notin sim_order_acked
        /\ LET u == ActionResponse(ts, "Order", sim_orders[i], code)
               now == EventTime(u)
           IN  /\ sim_order_acked' = sim_order_acked \cup {i}
               /\ SweepAndLoop(u, now,
                               OnResponse(active_orders, u.action_type, u.action, u.code),
                               <<>>, <<>>, FALSE)
               /\ UNCHANGED <<orderbook, client_order_id, position_size_quote,
                              sim_cancel_acked, sim_filled>>

\* tick() returns the ActionResponse for a submitted OrderCancel: lines 102-110, then the sweep
TickCancelResponse ==
    \E ts \in Times, i \in 1..Len(sim_cancels), code \in Codes :
        /\ Deliverable(ts)
        /\ i \notin sim_cancel_acked
        /\ LET c == sim_cancels[i]
               u == ActionResponse(ts, "OrderCancel",
                                   [NoOrder EXCEPT !.client_ts = c.client_ts,
                                                   !.client_order_id = c.client_order_id],
                                   code)
               now == EventTime(u)
           IN  /\ sim_cancel_acked' = sim_cancel_acked \cup {i}
               /\ SweepAndLoop(u, now,
                               OnResponse(active_orders, u.action_type, u.action, u.code),
                               <<>>, <<>>, FALSE)
               /\ UNCHANGED <<orderbook, client_order_id, position_size_quote,
                              sim_order_acked, sim_filled>>

Next ==
    \/ TickNone
    \/ TickOrderbook
    \/ TickTrade
    \/ TickHeartbeat
    \/ TickOwnTrade
    \/ TickOrderResponse
    \/ TickCancelResponse

Spec == Init /\ [][Next]_vars

TypeOK ==
    /\ current_time \in {None} \cup 0..MaxTime
    /\ pc \in {"running", "done", "crashed"}
    /\ client_order_id \in FirstOrderId..(FirstOrderId + 2 * MaxEvents)

(***************************************************************************)
(* Observations used by the properties.                                    *)
(***************************************************************************)
\* the order submitted with this id (ids of submitted orders are unique)
SubmittedOrder(id) ==
    sim_orders[CHOOSE i \in 1..Len(sim_orders) : sim_orders[i].client_order_id = id]

\* ids for which the sweep has issued a cancel request
CancelledIds == {sim_cancels[i].client_order_id : i \in 1..Len(sim_cancels)}

\* the last iteration dispatched an orderbook snapshot
IsSnapshot(u) == u.type = "MdUpdate" /\ u.orderbook # NoBook

\* the last iteration dispatched the ActionResponse of an Order
IsOrderResponse(u) == u.type = "ActionResponse" /\ u.action_type = "Order"

\* +size*price for a BID fill, -size*price for an ASK fill
SignedNotional(o) == IF o.side = "BID" THEN o.size * o.price ELSE 0 - o.size * o.price

(***************************************************************************)
(* C1  Lifetime enforcement, liveness side: a sweep executed with          *)
(* current_time >= client_ts + order_lifetime removes the order, so after  *)
(* every executed sweep no order with current_time >= client_ts +          *)
(* order_lifetime is left in the Ledger.                                   *)
(***************************************************************************)
C1_SweepRemovesAtLifetime ==
    iter.swept =>
        \A i \in 1..Len(active_orders) :
            ~(current_time >= active_orders[i].client_ts + order_lifetime)

(***************************************************************************)
(* C2  Lifetime enforcement, safety side: every cancel request the sweep   *)
(* issues (and so every order the sweep removes) is for an order with      *)
(* current_time >= client_ts + order_lifetime; none is issued earlier.     *)
(***************************************************************************)
C2_NoCancelBeforeLifetime ==
    \A i \in 1..Len(iter.cancelled) :
        LET c == iter.cancelled[i]
            o == SubmittedOrder(c.client_order_id)
        IN  /\ c.client_ts = current_time
            /\ c.client_order_id \notin Keys(active_orders)
            /\ ~(current_time < o.client_ts + order_lifetime)

\* an iteration whose sweep cancelled an order
C2_Witness ==
    /\ iter.swept
    /\ iter.cancelled # <<>>
    /\ current_time > SubmittedOrder(iter.cancelled[1].client_order_id).client_ts
                      + order_lifetime

(***************************************************************************)
(* C3  No order in the Ledger past its terminal event: an id that was      *)
(* removed by an OwnTrade or by the cancellation sweep is never in         *)
(* active_orders afterwards.                                               *)
(***************************************************************************)
C3_NoOrderPastTerminalEvent ==
    \A id \in sim_filled \cup CancelledIds : id \notin Keys(active_orders)

(***************************************************************************)
(* C4  Rejected placement: after the ActionResponse of an Order with a     *)
(* code other than OK has been processed, the order's id is not in the     *)
(* Ledger.                                                                 *)
(***************************************************************************)
C4_RejectedNotOutstanding ==
    (IsOrderResponse(update) /\ update.code # "OK")
        => update.action.client_order_id \notin Keys(active_orders)

(***************************************************************************)
(* C5  Ledger ordering: the iteration order of active_orders is            *)
(* non-decreasing in client_ts in every reachable state.                   *)
(***************************************************************************)
C5_LedgerSortedByClientTs ==
    \A i \in 1..Len(active_orders), j \in 1..Len(active_orders) :
        i < j => active_orders[i].client_ts <= active_orders[j].client_ts

\* the sum of the signed notionals of the OwnTrades processed so far
RECURSIVE FillSum(_)
FillSum(ids) ==
    IF ids = {} THEN 0
    ELSE LET id == CHOOSE x \in ids : TRUE
         IN  SignedNotional(SubmittedOrder(id)) + FillSum(ids \ {id})

(***************************************************************************)
(* C6  Position accounting: position_size_quote is always the sum of       *)
(* +size*price (BID) and -size*price (ASK) over the OwnTrades processed so *)
(* far, and an iteration that dispatches anything other than an OwnTrade   *)
(* leaves it unchanged.                                                    *)
(***************************************************************************)
C6_PositionIsSumOfFills ==
    /\ [](position_size_quote = FillSum(sim_filled))
    /\ [][update'.type # "OwnTrade" => position_size_quote' = position_size_quote]_vars

\* two fills have been processed, after the snapshots that placed the orders
C6_Witness ==
    /\ Cardinality(sim_filled) = 2
    /\ position_size_quote # 0
    /\ update.type = "OwnTrade"

(***************************************************************************)
(* C7  Fill removes: processing an OwnTrade for an id that is in the       *)
(* Ledger leaves the id absent from the Ledger and changes                 *)
(* position_size_quote by exactly the fill's signed notional.              *)
(***************************************************************************)
C7_FillRemoves ==
    [][(update'.type = "OwnTrade"
            /\ update'.own_trade.client_order_id \in Keys(active_orders))
        => /\ update'.own_trade.client_order_id \notin Keys(active_orders')
           /\ position_size_quote' - position_size_quote
                  = SignedNotional(update'.own_trade)]_vars

\* an OwnTrade has just been processed for an order that was outstanding:
\* it was never cancelled, so only this fill can have removed it
C7_Witness ==
    /\ update.type = "OwnTrade"
    /\ update.own_trade.client_order_id \notin CancelledIds
    /\ update.own_trade.client_order_id \notin Keys(active_orders)
    /\ position_size_quote = SignedNotional(update.own_trade)

(***************************************************************************)
(* C8  Time monotonicity: with updates delivered in non-decreasing         *)
(* timestamp order, every processed update leaves current_time at that     *)
(* update's receive timestamp, and never below its previous value.         *)
(***************************************************************************)
C8_TimeMonotonic ==
    [][update'.type # "None"
        => /\ current_time' = update'.receive_ts
           /\ current_time' >= current_time]_vars

\* time has advanced and the last update was an ActionResponse
C8_Witness ==
    /\ update.type = "ActionResponse"
    /\ current_time = update.receive_ts
    /\ current_time > 0

(***************************************************************************)
(* C9  Id uniqueness and monotonicity: the ids next_order_id hands out     *)
(* start at 1 and increase strictly, submitted orders never share an id,   *)
(* and place_order never registers an id that is already in the Ledger.    *)
(***************************************************************************)
C9_IdsUniqueAndIncreasing ==
    /\ [](/\ client_order_id >= FirstOrderId
          /\ \A i \in 1..Len(sim_orders) : sim_orders[i].client_order_id < client_order_id
          /\ \A i \in 1..Len(sim_orders), j \in 1..Len(sim_orders) :
                i < j => sim_orders[i].client_order_id < sim_orders[j].client_order_id
          /\ \A i \in 1..Len(active_orders), j \in 1..Len(active_orders) :
                i # j => active_orders[i].client_order_id # active_orders[j].client_order_id)
    /\ [][/\ \A i \in 1..Len(iter'.ids) :
                /\ iter'.ids[i] >= client_order_id
                /\ iter'.ids[i] < client_order_id'
                /\ \A j \in 1..Len(iter'.ids) : i < j => iter'.ids[i] < iter'.ids[j]
          /\ (client_order_id = FirstOrderId /\ iter'.ids # <<>>)
                => iter'.ids[1] = 1
          /\ \A i \in 1..Len(iter'.placed) :
                iter'.placed[i].client_order_id \notin Keys(active_orders)]_vars

\* a second snapshot has drawn ids while an earlier order is still in the Ledger
C9_Witness ==
    /\ iter.ids = <<3, 4>>
    /\ Len(active_orders) = 2
    /\ Len(sim_orders) = 2

(***************************************************************************)
(* C10  Position-bounded side selection: a snapshot processed with         *)
(* position < -max_position places the Bid candidate, one processed with   *)
(* position > max_position places the Ask candidate, and random.choice is  *)
(* consulted exactly when -max_position <= position <= max_position.       *)
(***************************************************************************)
C10_SideBoundedByPosition ==
    [][IsSnapshot(update')
        => LET ob == update'.orderbook
               bid_candidate == Order(ob.receive_ts + SubmissionDelay, iter'.ids[1],
                                      "BID", OrderSize, ob.bids[1][1])
               ask_candidate == Order(ob.receive_ts + SubmissionDelay, iter'.ids[2],
                                      "ASK", OrderSize, ob.asks[1][1])
           IN  /\ position_size_quote < -max_position
                    => iter'.placed = <<bid_candidate>>
               /\ position_size_quote > max_position
                    => iter'.placed = <<ask_candidate>>
               /\ iter'.random <=> (/\ -max_position <= position_size_quote
                                    /\ position_size_quote <= max_position)]_vars

\* a snapshot was processed while too short: the Bid candidate was placed
\* without consulting the random source
C10_Witness ==
    /\ IsSnapshot(update)
    /\ position_size_quote < -max_position
    /\ ~iter.random
    /\ iter.placed # <<>>
    /\ iter.placed[1].side = "BID"

(***************************************************************************)
(* C11  One quote per snapshot: an iteration that dispatches an orderbook  *)
(* snapshot submits at most one order and adds at most one Ledger entry,   *)
(* an iteration that dispatches anything else submits none, and no order   *)
(* is submitted while no snapshot has been observed.                       *)
(***************************************************************************)
C11_OneQuotePerSnapshot ==
    /\ [](orderbook = NoBook => sim_orders = <<>>)
    /\ [][/\ IsSnapshot(update')
                => /\ Len(sim_orders') <= Len(sim_orders) + 1
                   /\ Cardinality(Keys(active_orders') \ Keys(active_orders)) <= 1
          /\ ~IsSnapshot(update') => sim_orders' = sim_orders]_vars

\* a snapshot placed its single order while another order was outstanding,
\* after a trade that placed nothing
C11_Witness ==
    /\ IsSnapshot(update)
    /\ Len(iter.placed) = 1
    /\ Len(sim_orders) = 2
    /\ Len(active_orders) = 2

(***************************************************************************)
(* C12  Cancel exactly once: over the whole run no two cancel requests     *)
(* carry the same client_order_id, and an id for which a cancel request    *)
(* was issued is absent from the Ledger from that sweep onward.            *)
(***************************************************************************)
C12_CancelExactlyOnce ==
    /\ \A i \in 1..Len(sim_cancels), j \in 1..Len(sim_cancels) :
          i # j => sim_cancels[i].client_order_id # sim_cancels[j].client_order_id
    /\ \A i \in 1..Len(sim_cancels) :
          sim_cancels[i].client_order_id \notin Keys(active_orders)

\* ids of the orders passed to sim.place_order so far
SubmittedIds == {sim_orders[i].client_order_id : i \in 1..Len(sim_orders)}

\* ids the iteration that dispatched u registered in the Ledger: by
\* place_order, or by the OK ActionResponse of an Order
RegisteredBy(u, it) ==
    {it.placed[i].client_order_id : i \in 1..Len(it.placed)}
        \cup (IF IsOrderResponse(u) /\ u.code = "OK"
              THEN {u.action.client_order_id} ELSE {})

\* ids the sweep of the iteration cancelled
SweptBy(it) == {it.cancelled[i].client_order_id : i \in 1..Len(it.cancelled)}

\* ids for which the iteration that dispatched u processed a fill
FilledBy(u) == IF u.type = "OwnTrade" THEN {u.own_trade.client_order_id} ELSE {}

\* ids for which the iteration that dispatched u processed a rejected placement
RejectedBy(u) ==
    IF IsOrderResponse(u) /\ u.code # "OK" THEN {u.action.client_order_id} ELSE {}

(***************************************************************************)
(* C13  Ledger consistency: every id in the Ledger is the id of a          *)
(* submitted order, and after every iteration each id in the Ledger was    *)
(* either registered by that iteration (place_order or an OK               *)
(* ActionResponse) or was in the Ledger before it and met no fill, no      *)
(* cancel sweep and no rejection in it.                                    *)
(***************************************************************************)
C13_LedgerConsistency ==
    /\ [](Keys(active_orders) \subseteq SubmittedIds)
    /\ [][\A id \in Keys(active_orders') :
            \/ id \in RegisteredBy(update', iter')
            \/ /\ id \in Keys(active_orders)
               /\ id \notin FilledBy(update')
               /\ id \notin SweptBy(iter')
               /\ id \notin RejectedBy(update')]_vars

(***************************************************************************)
(* C14  Termination on stream exhaustion: when tick() returns the          *)
(* end-of-stream sentinel, run() has terminated with the log closed, that  *)
(* iteration executes no sweep and calls neither place_order nor           *)
(* cancel_order, and nothing happens after it.                             *)
(***************************************************************************)
C14_TerminatesOnEndOfStream ==
    /\ [](update.type = "None"
            => /\ pc = "done"
               /\ ~log_open
               /\ ~iter.swept
               /\ iter.placed = <<>>
               /\ iter.cancelled = <<>>)
    /\ [](pc = "done" => update.type = "None")
    /\ [][update'.type = "None"
            => UNCHANGED <<sim_orders, sim_cancels, active_orders,
                           position_size_quote, current_time, client_order_id>>]_vars
    /\ [][pc = "done" => UNCHANGED vars]_vars

\* the stream ended while an order was still in the Ledger: it is neither
\* swept nor cancelled
C14_Witness ==
    /\ pc = "done"
    /\ ~log_open
    /\ active_orders # <<>>
    /\ sim_cancels = <<>>

\* the last iteration dispatched the ActionResponse of an OrderCancel
IsCancelResponse(u) == u.type = "ActionResponse" /\ u.action_type = "OrderCancel"

\* the ledger d without the entries whose id is in ids, order kept
Without(d, ids) == SelectSeq(d, LAMBDA o : o.client_order_id \notin ids)

(***************************************************************************)
(* C15  Optimistic cancellation: the cancel requests of an iteration are   *)
(* submitted in that iteration and their ids have left the Ledger when it  *)
(* ends; each of them was in the Ledger when the sweep started (it was     *)
(* there before the iteration or the iteration registered it); and an      *)
(* iteration that dispatches the ActionResponse of an OrderCancel changes  *)
(* the Ledger only by its own sweep and leaves the position unchanged.     *)
(***************************************************************************)
C15_OptimisticCancellation ==
    [][/\ sim_cancels' = sim_cancels \o iter'.cancelled
       /\ \A id \in SweptBy(iter') :
            /\ id \notin Keys(active_orders')
            /\ id \in Keys(active_orders) \cup RegisteredBy(update', iter')
       /\ IsCancelResponse(update')
            => /\ active_orders' = Without(active_orders, SweptBy(iter'))
               /\ position_size_quote' = position_size_quote]_vars

\* the response to a cancel request was processed after the cancelled order
\* had left the Ledger, with another order still outstanding
C15_Witness ==
    /\ IsCancelResponse(update)
    /\ update.action.client_order_id \in CancelledIds
    /\ update.action.client_order_id \notin Keys(active_orders)
    /\ active_orders # <<>>

(***************************************************************************)
(* C16  Public market data is not a fill: an iteration that dispatches an  *)
(* MdUpdate carrying a trade, or neither trade nor orderbook, sets         *)
(* current_time and leaves position, cached orderbook and id counter       *)
(* unchanged; it submits no order and the Ledger loses only what the       *)
(* iteration's own sweep cancels.                                          *)
(***************************************************************************)
C16_MarketDataIsNotAFill ==
    [][(update'.type = "MdUpdate" /\ ~IsSnapshot(update'))
        => /\ current_time' = update'.receive_ts
           /\ position_size_quote' = position_size_quote
           /\ orderbook' = orderbook
           /\ client_order_id' = client_order_id
           /\ sim_orders' = sim_orders
           /\ active_orders' = Without(active_orders, SweptBy(iter'))]_vars

\* a public trade was processed while the strategy had a position and an
\* order outstanding
C16_Witness ==
    /\ update.type = "MdUpdate"
    /\ update.trade_ts # None
    /\ position_size_quote # 0
    /\ active_orders # <<>>

(***************************************************************************)
(* C17  The fill/cancel race is safe: run() never pops a key that is not   *)
(* in active_orders, so it never ends with a KeyError; and an OwnTrade     *)
(* whose client_order_id is not in the Ledger removes nothing from it, so  *)
(* that the Ledger after the iteration is the Ledger before it without     *)
(* the orders the iteration's sweep cancels.                               *)
(***************************************************************************)
C17_FillCancelRaceIsSafe ==
    /\ [](pc # "crashed")
    /\ [][(/\ update'.type = "OwnTrade"
           /\ update'.own_trade.client_order_id \notin Keys(active_orders))
          => /\ FillKeys(active_orders, update'.own_trade.client_order_id) = <<>>
             /\ iter'.swept
             /\ active_orders' = Without(active_orders, SweptBy(iter'))]_vars

\* a fill arrives for an order that an earlier sweep has cancelled and whose
\* response has not been delivered, while another order is outstanding
C17_Witness ==
    /\ update.type = "OwnTrade"
    /\ update.own_trade.client_order_id \in CancelledIds
    /\ \A i \in 1..Len(sim_orders) :
          sim_orders[i].client_order_id = update.own_trade.client_order_id
              => i \notin sim_order_acked
    /\ active_orders # <<>>
    /\ pc = "running"

(***************************************************************************)
(* C18  As claimed: every iteration that dispatches an update other than   *)
(* the end-of-stream sentinel executes the lifetime sweep, market updates  *)
(* that arrive before any orderbook snapshot included.                     *)
(***************************************************************************)
C18_SweepAfterEveryDispatch ==
    update.type \notin {"Start", "None"} => iter.swept

\* the update is an MdUpdate without orderbook and no snapshot has been cached
BeforeFirstSnapshot == update.type = "MdUpdate" /\ ~IsSnapshot(update) /\ orderbook = NoBook

(***************************************************************************)
(* C18 (amended)  Every iteration that dispatches an update other than the *)
(* end-of-stream sentinel executes the lifetime sweep, except that a trade *)
(* or heartbeat MdUpdate arriving before any orderbook snapshot has been   *)
(* observed is followed by the next fetch without a sweep.                 *)
(***************************************************************************)
C18_SweepUnlessBeforeFirstSnapshot ==
    update.type \notin {"Start", "None"} => (iter.swept <=> ~BeforeFirstSnapshot)

\* the sweep that follows a trade or heartbeat MdUpdate has cancelled an order
C18_Witness ==
    /\ update.type = "MdUpdate"
    /\ ~IsSnapshot(update)
    /\ iter.swept
    /\ iter.cancelled # <<>>

(***************************************************************************)
(* C19  Sweep completeness: immediately after every executed sweep no      *)
(* order left in active_orders has current_time - client_ts >              *)
(* order_lifetime, i.e. the scan that stops at the first live order never  *)
(* leaves an expired order behind a younger one.                           *)
(***************************************************************************)
C19_SweepLeavesNoExpiredOrder ==
    iter.swept =>
        \A i \in 1..Len(active_orders) :
            ~Expired(current_time, active_orders[i], order_lifetime)

\* every processed snapshot has drawn two ids and placed one order, so that
\* the k-th submitted order belongs to the k-th snapshot; the counter is
\* 2n+1 after n snapshots; Bid ids are odd and Ask ids even
IdsPerSnapshot ==
    /\ IsSnapshot(update) => (Len(iter.ids) = 2 /\ Len(iter.placed) = 1)
    /\ ~IsSnapshot(update) => iter.ids = <<>>
    /\ client_order_id = 2 * Len(sim_orders) + 1
    /\ \A k \in 1..Len(sim_orders) :
          sim_orders[k].client_order_id =
              IF sim_orders[k].side = "BID" THEN 2 * k - 1 ELSE 2 * k

(***************************************************************************)
(* C20  As claimed: every snapshot draws two ids and places one order, the *)
(* counter is 2n+1 after n snapshots, Bid ids are odd and Ask ids even,    *)
(* and the ids of placed orders increase strictly in placement order and   *)
(* are not consecutive: each exceeds the one placed before it by more than *)
(* one.                                                                    *)
(***************************************************************************)
C20_PlacedIdsNeverConsecutive ==
    /\ IdsPerSnapshot
    /\ \A k \in 1..(Len(sim_orders) - 1) :
          sim_orders[k + 1].client_order_id > sim_orders[k].client_order_id + 1

(***************************************************************************)
(* C20 (amended)  Every snapshot draws two ids and places one order, the   *)
(* counter is 2n+1 after n snapshots, Bid ids are odd and Ask ids even,    *)
(* and the ids of placed orders increase strictly in placement order, by   *)
(* one (an Ask followed by a Bid), two (same side) or three (a Bid         *)
(* followed by an Ask).                                                    *)
(***************************************************************************)
C20_IdConsumptionPerSnapshot ==
    /\ IdsPerSnapshot
    /\ \A k \in 1..(Len(sim_orders) - 1) :
          sim_orders[k + 1].client_order_id - sim_orders[k].client_order_id =
              IF sim_orders[k].side = sim_orders[k + 1].side THEN 2
              ELSE IF sim_orders[k].side = "ASK" THEN 1 ELSE 3

\* two snapshots have placed an Ask and then a Bid, with the consecutive ids 2 and 3
C20_Witness ==
    /\ IsSnapshot(update)
    /\ Len(sim_orders) = 2
    /\ sim_orders[1].side = "ASK" /\ sim_orders[1].client_order_id = 2
    /\ sim_orders[2].side = "BID" /\ sim_orders[2].client_order_id = 3
    /\ client_order_id = 5

====
